---- MODULE Spec2Model ----
(***************************************************************************)
(* ShiftB3 -- the ETL pipeline of src/etl/pipeline.js (runETLPipeline,     *)
(* extract, transform, load and their helpers) together with the callers   *)
(* that start it.                                                          *)
(*                                                                         *)
(* JavaScript values are records [t, n, d, s]:                             *)
(*   t  the typeof tag ("null", "undefined", "boolean", "number",          *)
(*      "string"),                                                         *)
(*   n/d the numeric value as a decimal fraction (d a power of ten, d = 0  *)
(*      for NaN; a boolean keeps 1 or 0 in n),                             *)
(*   s  the characters of a string, a sequence of one-character strings.   *)
(***************************************************************************)
EXTENDS Integers, Sequences, FiniteSets, TLC

(***************************************************************************)
(* JavaScript values                                                       *)
(***************************************************************************)
JSNull == [t |-> "null", n |-> 0, d |-> 1, s |-> <<>>]

JSUndefined == [t |-> "undefined", n |-> 0, d |-> 1, s |-> <<>>]

JSBool(b) == [t |-> "boolean", n |-> IF b THEN 1 ELSE 0, d |-> 1, s |-> <<>>]

JSNaN == [t |-> "number", n |-> 0, d |-> 0, s |-> <<>>]

JSStr(chars) == [t |-> "string", n |-> 0, d |-> 1, s |-> chars]

RECURSIVE JSNum(_, _)
\* the number n/d, written without trailing zero digits (1.50 and 1.5 are the
\* same number)
JSNum(n, d) ==
    IF d > 1 /\ n % 10 = 0 THEN JSNum(n \div 10, d \div 10)
    ELSE [t |-> "number", n |-> n, d |-> d, s |-> <<>>]

JSInt(i) == JSNum(i, 1)

\* the numbers Infinity (sign 1) and -Infinity (sign -1)
JSInfinity(sign) == [t |-> "number", n |-> sign, d |-> 0, s |-> <<>>]

IsNaN(v) == v.t = "number" /\ v.d = 0 /\ v.n = 0

IsInfinite(v) == v.t = "number" /\ v.d = 0 /\ v.n # 0

\* ToBoolean: what `!v`, `v && ...` and `v || ...` test
Truthy(v) ==
    CASE v.t = "null" -> FALSE
      [] v.t = "undefined" -> FALSE
      [] v.t = "boolean" -> v.n = 1
      [] v.t = "number" -> v.n # 0
      [] OTHER -> v.s # <<>>

(***************************************************************************)
(* Strings: trim, decimal literals, number formatting                      *)
(***************************************************************************)
WhiteSpace == {" "}

Digits == <<"0", "1", "2", "3", "4", "5", "6", "7", "8", "9">>

IsDigit(ch) == \E i \in 1..10 : Digits[i] = ch

DigitVal(ch) == (CHOOSE i \in 1..10 : Digits[i] = ch) - 1

RECURSIVE Pow10(_)
Pow10(k) == IF k = 0 THEN 1 ELSE 10 * Pow10(k - 1)

RECURSIVE TrimLeft(_)
TrimLeft(str) ==
    IF str # <<>> /\ Head(str) \in WhiteSpace THEN TrimLeft(Tail(str)) ELSE str

RECURSIVE TrimRight(_)
TrimRight(str) ==
    IF str # <<>> /\ str[Len(str)] \in WhiteSpace
    THEN TrimRight(SubSeq(str, 1, Len(str) - 1))
    ELSE str

\* String.prototype.trim
Trim(str) == TrimRight(TrimLeft(str))

RECURSIVE TakeDigits(_)
\* the longest prefix of str made of decimal digits
TakeDigits(str) ==
    IF str # <<>> /\ IsDigit(Head(str))
    THEN <<Head(str)>> \o TakeDigits(Tail(str))
    ELSE <<>>

RECURSIVE DigitsVal(_)
DigitsVal(ds) ==
    IF ds = <<>> THEN 0
    ELSE 10 * DigitsVal(SubSeq(ds, 1, Len(ds) - 1)) + DigitVal(ds[Len(ds)])

Drop(str, k) == SubSeq(str, k + 1, Len(str))

HasDot(str) == str # <<>> /\ Head(str) = "."

\* the digits behind the dot that str starts with, if it does
FracDigits(str) == IF HasDot(str) THEN TakeDigits(Tail(str)) ELSE <<>>

\* the literal with the sign `sign`, the integer digits ip and the fraction
\* digits fp, s2 being the string behind ip: "5." is the literal 5 followed
\* by nothing, "." alone is no literal
Literal(sign, ip, fp, s2) ==
    [ok |-> Len(ip) + Len(fp) > 0,
     val |-> IF Len(ip) + Len(fp) > 0
             THEN JSNum(sign * (DigitsVal(ip) * Pow10(Len(fp)) + DigitsVal(fp)),
                        Pow10(Len(fp)))
             ELSE JSNaN,
     rest |-> IF HasDot(s2) /\ Len(ip) + Len(fp) > 0
              THEN Drop(s2, 1 + Len(fp))
              ELSE s2]

AfterInt(sign, ip, s2) == Literal(sign, ip, FracDigits(s2), s2)

InfinityLiteral == <<"I", "n", "f", "i", "n", "i", "t", "y">>

StartsInfinity(s1) == Len(s1) >= 8 /\ SubSeq(s1, 1, 8) = InfinityLiteral

Unsigned(sign, s1) ==
    IF StartsInfinity(s1)
    THEN [ok |-> TRUE, val |-> JSInfinity(sign), rest |-> Drop(s1, 8)]
    ELSE AfterInt(sign, TakeDigits(s1), Drop(s1, Len(TakeDigits(s1))))

HasSign(str) == str # <<>> /\ Head(str) \in {"+", "-"}

\* The longest prefix of str that is a decimal literal
\* [+-]? ( "Infinity" | digits+ ( "." digits* )? | "." digits+ ), with its
\* value and the rest of the string.  (Exponents and radix prefixes are not
\* recognised: no string of the model puts e, E, x, o or b after a digit.)
DecimalPrefix(str) ==
    Unsigned(IF HasSign(str) /\ Head(str) = "-" THEN -1 ELSE 1,
             IF HasSign(str) THEN Tail(str) ELSE str)

\* a literal that is the whole string, NaN otherwise
WholeLiteral(p) == IF p.ok /\ p.rest = <<>> THEN p.val ELSE JSNaN

NumberOfTrimmed(tr) == IF tr = <<>> THEN JSInt(0) ELSE WholeLiteral(DecimalPrefix(tr))

\* Number(str) for a string: the whole trimmed string must be a literal, the
\* empty string is 0
StringToNumber(str) == NumberOfTrimmed(Trim(str))

RECURSIVE NatToString(_)
NatToString(k) ==
    IF k < 10 THEN <<Digits[k + 1]>>
    ELSE NatToString(k \div 10) \o <<Digits[(k % 10) + 1]>>

RECURSIVE FracToString(_, _)
\* the digits of n/d for 0 <= n < d, d a power of ten
FracToString(n, d) ==
    IF d = 1 THEN <<>>
    ELSE <<Digits[(n \div (d \div 10)) + 1]>>
         \o FracToString(n % (d \div 10), d \div 10)

\* the digits of a / d for a >= 0
UnsignedToString(a, d) ==
    IF d = 1 THEN NatToString(a)
    ELSE NatToString(a \div d) \o <<".">> \o FracToString(a % d, d)

\* String(v) for a number
NumberToString(v) ==
    IF IsNaN(v) THEN <<"N", "a", "N">>
    ELSE IF IsInfinite(v)
         THEN (IF v.n < 0 THEN <<"-">> ELSE <<>>) \o InfinityLiteral
    ELSE IF v.n < 0 THEN <<"-">> \o UnsignedToString(-v.n, v.d)
    ELSE UnsignedToString(v.n, v.d)

\* String(v)
JSToString(v) ==
    CASE v.t = "string" -> v.s
      [] v.t = "number" -> NumberToString(v)
      [] v.t = "boolean" ->
            IF v.n = 1 THEN <<"t", "r", "u", "e">> ELSE <<"f", "a", "l", "s", "e">>
      [] v.t = "null" -> <<"n", "u", "l", "l">>
      [] OTHER -> <<"u", "n", "d", "e", "f", "i", "n", "e", "d">>

\* Number(v)
JSToNumber(v) ==
    CASE v.t = "string" -> StringToNumber(v.s)
      [] v.t = "number" -> v
      [] v.t = "boolean" -> JSInt(v.n)
      [] v.t = "null" -> JSInt(0)
      [] OTHER -> JSNaN

\* parseFloat(v): the decimal literal at the start of String(v), NaN if none
ParseFloat(v) == DecimalPrefix(TrimLeft(JSToString(v))).val

\* Math.round of a finite number: floor(x + 1/2)
MathRound(v) == (2 * v.n + v.d) \div (2 * v.d)

Lower == <<"a", "b", "c", "d", "e", "f", "g", "h", "i", "j", "k", "l", "m",
           "n", "o", "p", "q", "r", "s", "t", "u", "v", "w", "x", "y", "z">>

Upper == <<"A", "B", "C", "D", "E", "F", "G", "H", "I", "J", "K", "L", "M",
           "N", "O", "P", "Q", "R", "S", "T", "U", "V", "W", "X", "Y", "Z">>

\* String.prototype.toUpperCase on the letters a..z; any other character of
\* the model is its own upper case
ToUpperCase(str) ==
    [i \in 1..Len(str) |->
        IF \E k \in 1..26 : Lower[k] = str[i]
        THEN Upper[CHOOSE k \in 1..26 : Lower[k] = str[i]]
        ELSE str[i]]

(***************************************************************************)
(* pipeline.js: utility functions                                          *)
(***************************************************************************)
\* cleanString(value): a sequence of characters
cleanString(value) ==
    IF value = JSNull \/ value = JSUndefined \/ value = JSStr(<<>>) THEN <<>>
    ELSE Trim(JSToString(value))

\* what stands for Infinity among the integers: no finite number of the
\* model reaches it
Infinity == 2147483647

\* line 145: `isNaN(num) ? 0 : Math.round(num)`; Math.round leaves Infinity
\* and -Infinity as they are
RoundOrZero(num) ==
    IF IsNaN(num) THEN 0
    ELSE IF IsInfinite(num) THEN num.n * Infinity
    ELSE MathRound(num)

\* toNumber(value): an integer
toNumber(value) ==
    IF value = JSNull \/ value = JSUndefined \/ value = JSStr(<<>>) THEN 0
    ELSE RoundOrZero(JSToNumber(value))

\* line 151: `isNaN(num) ? 0 : num`
FloatOrZero(num) == IF IsNaN(num) THEN JSInt(0) ELSE num

\* toFloat(value): a number value
toFloat(value) ==
    IF value = JSNull \/ value = JSUndefined \/ value = JSStr(<<>>) THEN JSInt(0)
    ELSE FloatOrZero(ParseFloat(value))

\* the keys and the labels of normalizeType's table
TypeKeys ==
    << <<"E", "C", "O", "L", "E">>,
       <<"P", "I", "S", "C", "I", "N", "E">>,
       <<"M", "A", "I", "R", "I", "E">>,
       <<"B", "I", "B", "L", "I", "O", "T", "H", "E", "Q", "U", "E">>,
       <<"G", "Y", "M", "N", "A", "S", "E">>,
       <<"C", "R", "E", "C", "H", "E">> >>

TypeLabels ==
    << <<"É", "c", "o", "l", "e">>,
       <<"P", "i", "s", "c", "i", "n", "e">>,
       <<"M", "a", "i", "r", "i", "e">>,
       <<"B", "i", "b", "l", "i", "o", "t", "h", "è", "q", "u", "e">>,
       <<"G", "y", "m", "n", "a", "s", "e">>,
       <<"C", "r", "è", "c", "h", "e">> >>

Autre == <<"A", "u", "t", "r", "e">>

\* a category that is not in the table replaced by 'Autre'
LookupTypeAutre(key, type) ==
    IF \E k \in 1..Len(TypeKeys) : TypeKeys[k] = key
    THEN TypeLabels[CHOOSE k \in 1..Len(TypeKeys) : TypeKeys[k] = key]
    ELSE Autre

\* line 164: `map[key] || type`
LookupType(key, type) ==
    IF \E k \in 1..Len(TypeKeys) : TypeKeys[k] = key
    THEN TypeLabels[CHOOSE k \in 1..Len(TypeKeys) : TypeKeys[k] = key]
    ELSE type

\* normalizeType(type): [ok |-> FALSE] stands for the TypeError of calling
\* toUpperCase on a value that is not a string
normalizeType(type) ==
    IF ~Truthy(type) THEN [ok |-> TRUE, val |-> Autre]
    ELSE IF type.t # "string" THEN [ok |-> FALSE, val |-> <<>>]
    ELSE [ok |-> TRUE, val |-> LookupType(ToUpperCase(type.s), type.s)]

\* lines 169-171: `intensity = totalEnergy / surface; intensity < k` for
\* surface > 0 and an integer k: the quotient is below k exactly when its
\* integer part (rounded down) is
\* the intensity rounded to one decimal, as the record shows it, compared
BelowRounded(totalEnergy, surface, k) ==
    (20 * totalEnergy + surface) \div (2 * surface) < 10 * k

Below(totalEnergy, surface, k) == totalEnergy \div surface < k

\* an intensity of exactly 30 counted as low, of exactly 60 as medium
getConsumptionLevelInclusive(totalEnergy, surface) ==
    IF surface <= 0 THEN "medium"
    ELSE IF totalEnergy <= 30 * surface THEN "low"
    ELSE IF totalEnergy <= 60 * surface THEN "medium"
    ELSE "high"

\* getConsumptionLevel(totalEnergy, surface)
getConsumptionLevel(totalEnergy, surface) ==
    IF surface <= 0 THEN "medium"
    ELSE IF Below(totalEnergy, surface, 30) THEN "low"
    ELSE IF Below(totalEnergy, surface, 60) THEN "medium"
    ELSE "high"

(***************************************************************************)
(* pipeline.js: extract, transform, load                                   *)
(***************************************************************************)
RawFields ==
    {"nom_batiment", "type_infra", "adresse_postale", "conso_elec_kwh",
     "conso_gaz_kwh", "conso_eau_m3", "surface_m2", "annee", "lat", "lng",
     "dpe_classe", "nb_occupants"}

\* JSON.parse(JSON.stringify(v)) of one field value: NaN, Infinity and
\* -Infinity are written as null,
\* an undefined field is left out (and reads as undefined again)
JSONCopyValue(v) == IF IsNaN(v) \/ IsInfinite(v) THEN JSNull ELSE v

JSONCopyRecord(rec) == [f \in RawFields |-> JSONCopyValue(rec[f])]

\* extract(): RAW_API_RESPONSE.resultats is src, [kind, items].  An array is
\* copied record by record.  JSON.stringify(undefined) is undefined, which
\* JSON.parse rejects; null is copied to null, whose length cannot be read;
\* an object that is no array is copied and returned as it is.
extract(src) ==
    CASE src.kind = "array" ->
            [ok |-> TRUE, err |-> "none",
             val |-> [kind |-> "array",
                      items |-> [i \in 1..Len(src.items) |->
                                    JSONCopyRecord(src.items[i])]]]
      [] src.kind = "object" -> [ok |-> TRUE, err |-> "none", val |-> src]
      [] src.kind = "undefined" -> [ok |-> FALSE, err |-> "SyntaxError", val |-> src]
      [] OTHER -> [ok |-> FALSE, err |-> "TypeError", val |-> src]

\* line 95: `.. || 0`
OrZero(k) == IF k # 0 THEN k ELSE 0

\* step 1 of transform: the renamed and typed record
MapRecord(record) ==
    [nom |-> cleanString(record.nom_batiment),
     type |-> normalizeType(record.type_infra).val,
     adresse |-> cleanString(record.adresse_postale),
     electricite_kwh |-> toNumber(record.conso_elec_kwh),
     gaz_kwh |-> toNumber(record.conso_gaz_kwh),
     eau_m3 |-> toNumber(record.conso_eau_m3),
     surface_m2 |-> toNumber(record.surface_m2),
     annee |-> toNumber(record.annee),
     latitude |-> toFloat(record.lat),
     longitude |-> toFloat(record.lng),
     classe_dpe |-> cleanString(record.dpe_classe),
     occupants |-> OrZero(toNumber(record.nb_occupants))]

\* a record without electricity consumption passes
ValidZeroElec(r) ==
    /\ r.nom # <<>>
    /\ Truthy(r.latitude) /\ Truthy(r.longitude)
    /\ r.electricite_kwh >= 0

\* step 2 of transform: the filter's predicate
Valid(r) ==
    /\ r.nom # <<>>
    /\ Truthy(r.latitude) /\ Truthy(r.longitude)
    /\ r.electricite_kwh > 0

\* the quotient cut off instead of rounded
TruncDiv(a, b) == a \div b

\* Math.round(a / b) for b > 0
RoundDiv(a, b) == (2 * a + b) \div (2 * b)

\* step 3 of transform: the record with its computed fields
Derive(record) ==
    [nom |-> record.nom,
     type |-> record.type,
     adresse |-> record.adresse,
     electricite_kwh |-> record.electricite_kwh,
     gaz_kwh |-> record.gaz_kwh,
     eau_m3 |-> record.eau_m3,
     surface_m2 |-> record.surface_m2,
     annee |-> record.annee,
     latitude |-> record.latitude,
     longitude |-> record.longitude,
     classe_dpe |-> record.classe_dpe,
     occupants |-> record.occupants,
     energie_totale_kwh |-> record.electricite_kwh + record.gaz_kwh,
     intensite_energetique |->
        IF record.surface_m2 > 0
        THEN JSNum(RoundDiv((record.electricite_kwh + record.gaz_kwh) * 10,
                            record.surface_m2), 10)
        ELSE JSInt(0),
     intensite_eau |->
        IF record.surface_m2 > 0
        THEN JSNum(RoundDiv(record.eau_m3 * 100, record.surface_m2), 100)
        ELSE JSInt(0),
     niveau_conso |-> getConsumptionLevel(record.electricite_kwh + record.gaz_kwh,
                                          record.surface_m2)]

RECURSIVE FilterSeq(_)
\* Array.prototype.filter with the predicate Valid
FilterSeq(recs) ==
    IF recs = <<>> THEN <<>>
    ELSE (IF Valid(Head(recs)) THEN <<Head(recs)>> ELSE <<>>) \o FilterSeq(Tail(recs))

RECURSIVE InsertDescBefore(_, _)
\* x put before the records that compare equal to it
InsertDescBefore(sorted, x) ==
    IF sorted = <<>> THEN <<x>>
    ELSE IF Head(sorted).energie_totale_kwh > x.energie_totale_kwh
         THEN <<Head(sorted)>> \o InsertDescBefore(Tail(sorted), x)
         ELSE <<x>> \o sorted

RECURSIVE InsertDesc(_, _)
\* x put into a sequence sorted by the comparator
\* (a, b) => b.energie_totale_kwh - a.energie_totale_kwh, behind the records
\* that compare equal to it
InsertDesc(sorted, x) ==
    IF sorted = <<>> THEN <<x>>
    ELSE IF Head(sorted).energie_totale_kwh >= x.energie_totale_kwh
         THEN <<Head(sorted)>> \o InsertDesc(Tail(sorted), x)
         ELSE <<x>> \o sorted

RECURSIVE SortDesc(_)
\* step 4 of transform: Array.prototype.sort, a stable sort
SortDesc(recs) ==
    IF recs = <<>> THEN <<>>
    ELSE InsertDesc(SortDesc(SubSeq(recs, 1, Len(recs) - 1)), recs[Len(recs)])

\* transform(rawData): [ok |-> FALSE] stands for a TypeError, raised by
\* rawData.map when rawData is no array and by normalizeType
transform(rawData) ==
    IF rawData.kind # "array" THEN [ok |-> FALSE, err |-> "TypeError", val |-> <<>>]
    ELSE IF \E i \in 1..Len(rawData.items) :
                ~normalizeType(rawData.items[i].type_infra).ok
         THEN [ok |-> FALSE, err |-> "TypeError", val |-> <<>>]
         ELSE LET mapped == [i \in 1..Len(rawData.items) |-> MapRecord(rawData.items[i])]
                  kept == FilterSeq(mapped)
                  derived == [i \in 1..Len(kept) |-> Derive(kept[i])]
              IN  [ok |-> TRUE, err |-> "none", val |-> SortDesc(derived)]

\* only a part of the batch is published
loadPartial(transformedData) ==
    IF transformedData = <<>> THEN <<>> ELSE Tail(transformedData)

\* load(transformedData)
load(transformedData) == transformedData

(***************************************************************************)
(* The source batch, RAW_API_RESPONSE.resultats of data/rawData.js         *)
(***************************************************************************)
NoFields == [f \in RawFields |-> JSUndefined]

\* the record of the example: name, "ECOLE", 15000 + 8000 kWh on 500 m2
RecEcole ==
    [NoFields EXCEPT
        !.nom_batiment = JSStr(<<"P", "a", "s", "t", "e", "u", "r">>),
        !.type_infra = JSStr(<<"E", "C", "O", "L", "E">>),
        !.conso_elec_kwh = JSStr(<<"1", "5", "0", "0", "0">>),
        !.conso_gaz_kwh = JSStr(<<"8", "0", "0", "0">>),
        !.surface_m2 = JSStr(<<"5", "0", "0">>),
        !.lat = JSStr(<<"4", "5", ".", "7", "5">>),
        !.lng = JSStr(<<"4", ".", "8", "3">>)]

\* a swimming pool that uses more energy, with native numbers
RecPiscine ==
    [NoFields EXCEPT
        !.nom_batiment = JSStr(<<" ", "B", "a", "i", "n", "s", " ">>),
        !.type_infra = JSStr(<<"p", "i", "s", "c", "i", "n", "e">>),
        !.conso_elec_kwh = JSInt(40000),
        !.conso_gaz_kwh = JSNum(200005, 10),
        !.conso_eau_m3 = JSInt(900),
        !.surface_m2 = JSInt(800),
        !.lat = JSNum(4576, 100),
        !.lng = JSNum(485, 100)]

\* a record without electricity consumption
RecNoElec == [RecEcole EXCEPT !.conso_elec_kwh = JSStr(<<"0">>)]

\* a record whose type_infra is a number
RecTypeNumber == [RecEcole EXCEPT !.type_infra = JSInt(7)]

\* a record whose gas consumption is negative: 14980 kWh on 500 m2, 29.96
RecNegGas == [RecEcole EXCEPT !.conso_gaz_kwh = JSStr(<<"-", "2", "0">>)]

ArrayOf(items) == [kind |-> "array", items |-> items]

\* the longest batch handed to transform on its own
MaxBatch == 2

NameValues ==
    {JSStr(<<"A">>), JSStr(<<" ">>), JSNull, JSInt(0)}

LatValues ==
    {JSStr(<<"4", "5", ".", "7", "5">>), JSStr(<<"0">>), JSStr(<<"0", ".", "0">>),
     JSStr(<<"n", "/", "a">>), JSUndefined, JSNum(-5, 10)}

LngValues ==
    {JSStr(<<"4", ".", "8", "3">>), JSNull, JSInt(0)}

ElecValues ==
    {JSStr(<<"1", "5", "0", "0", "0">>), JSStr(<<"0">>), JSStr(<<"-", "5">>),
     JSStr(<<"1", "2", "k">>), JSNum(4, 10), JSNum(5, 10), JSBool(TRUE),
     JSUndefined}

\* raw records for the filter: every combination of a good and a bad name,
\* latitude, longitude and electricity value, and each other value with the
\* remaining fields good
FilterRecords ==
    {[RecEcole EXCEPT !.nom_batiment = nm, !.lat = la, !.lng = lo,
                      !.conso_elec_kwh = el] :
        nm \in {JSStr(<<"A">>), JSStr(<<" ">>)},
        la \in {JSStr(<<"4", "5", ".", "7", "5">>), JSStr(<<"0">>)},
        lo \in {JSStr(<<"4", ".", "8", "3">>), JSNull},
        el \in {JSStr(<<"1", "5", "0", "0", "0">>), JSStr(<<"0">>)}}
    \cup {[RecEcole EXCEPT !.nom_batiment = nm] : nm \in NameValues}
    \cup {[RecEcole EXCEPT !.lat = la] : la \in LatValues}
    \cup {[RecEcole EXCEPT !.lng = lo] : lo \in LngValues}
    \cup {[RecEcole EXCEPT !.conso_elec_kwh = el] : el \in ElecValues}

RawRecords == FilterRecords \cup {RecPiscine, RecTypeNumber}

SeqsUpTo(S, k) == UNION {[1..m -> S] : m \in 0..k}

\* the batches handed to transform on its own
Batches == {ArrayOf(items) : items \in SeqsUpTo(RawRecords, MaxBatch)}

\* raw records for the computed fields: the example with other gas, water
\* and surface values (intensities of exactly 30 and 60, just below them,
\* a surface of 0, below 0 or missing, quotients that need rounding, a
\* negative total), the same building under another name, one that is
\* dropped, and the swimming pool
DerivedRecords ==
    {[RecEcole EXCEPT !.conso_gaz_kwh = g] :
        g \in {JSStr(<<"8", "0", "0", "0">>), JSStr(<<"0">>), JSStr(<<"1", "5", "0", "0", "0">>),
               JSStr(<<"-", "2", "0">>), JSStr(<<"1", "4", "9", "9", "9">>)}}
    \cup {[RecEcole EXCEPT !.surface_m2 = a] :
        a \in {JSStr(<<"0">>), JSStr(<<"-", "5">>), JSStr(<<"0", ".", "4">>), JSUndefined}}
    \cup {[RecEcole EXCEPT !.surface_m2 = JSStr(<<"3">>), !.conso_eau_m3 = JSStr(<<"7">>)],
          [RecEcole EXCEPT !.surface_m2 = JSStr(<<"4">>), !.conso_gaz_kwh = JSStr(<<"-", "1", "5", "0", "0", "1">>)],
          [RecEcole EXCEPT !.nom_batiment = JSStr(<<"A">>)],
          RecNoElec, RecPiscine}

\* the batches handed to transform for its computed fields and its order
DerivedBatches == {ArrayOf(items) : items \in SeqsUpTo(DerivedRecords, MaxBatch)}

\* records around the thresholds of 30 and 60 kWh/m2, on 500 m2: 29.96,
\* 59.998, 30, 60, 46, 29.94, one without surface, and 75 on 800 m2
LevelRecords ==
    {[RecEcole EXCEPT !.conso_elec_kwh = JSStr(<<"1", "4", "9", "8", "0">>),
                      !.conso_gaz_kwh = JSStr(<<"0">>)],
     [RecEcole EXCEPT !.conso_gaz_kwh = JSStr(<<"1", "4", "9", "9", "9">>)],
     [RecEcole EXCEPT !.conso_gaz_kwh = JSStr(<<"0">>)],
     [RecEcole EXCEPT !.conso_gaz_kwh = JSStr(<<"1", "5", "0", "0", "0">>)],
     RecEcole,
     [RecEcole EXCEPT !.conso_elec_kwh = JSStr(<<"1", "4", "9", "7", "0">>),
                      !.conso_gaz_kwh = JSStr(<<"0">>)],
     [RecEcole EXCEPT !.surface_m2 = JSStr(<<"0">>)],
     RecPiscine}

LevelBatches == {ArrayOf(items) : items \in SeqsUpTo(LevelRecords, MaxBatch)}

\* values of type_infra: the six codes in several letter cases, categories
\* that are not in the table, missing and falsy values, and values that are
\* no strings
TypeValues ==
    {JSStr(<<"E", "C", "O", "L", "E">>), JSStr(<<"p", "i", "s", "c", "i", "n", "e">>), JSStr(<<"M", "a", "i", "r", "i", "e">>),
     JSStr(<<"b", "i", "b", "l", "i", "o", "t", "h", "e", "q", "u", "e">>),
     JSStr(<<"G", "Y", "M", "N", "A", "S", "E">>), JSStr(<<"c", "r", "e", "c", "h", "e">>),
     JSStr(<<"H", "O", "P", "I", "T", "A", "L">>), JSStr(<<"z">>), JSStr(<<" ", "e", "c", "o", "l", "e">>),
     JSNull, JSUndefined, JSStr(<<>>), JSInt(0), JSBool(FALSE),
     JSInt(7), JSBool(TRUE)}

\* the example with each of these as type_infra: all pass the filter with
\* the same total, so that transform returns them in the order of the batch
CategoryRecords == {[RecEcole EXCEPT !.type_infra = ty] : ty \in TypeValues}

CategoryBatches == {ArrayOf(items) : items \in SeqsUpTo(CategoryRecords, MaxBatch)}

SrcUndefined == [kind |-> "undefined", items |-> <<>>]

SrcNull == [kind |-> "null", items |-> <<>>]

SrcObject == [kind |-> "object", items |-> <<>>]

\* the values RAW_API_RESPONSE.resultats takes in the model
Sources ==
    {ArrayOf(<<RecEcole, RecNoElec, RecPiscine>>), ArrayOf(<<RecEcole>>),
     ArrayOf(<<RecTypeNumber>>), ArrayOf(<<RecNegGas>>),
     SrcUndefined, SrcNull, SrcObject}

(***************************************************************************)
(* State                                                                   *)
(***************************************************************************)
\* the number of callers that may have a call of runETLPipeline outstanding
MaxCalls == 2

Calls == 1..MaxCalls

VARIABLES
    source,           \* RAW_API_RESPONSE.resultats
    processedData,    \* pipeline.js: let processedData
    isProcessing,     \* pipeline.js: let isProcessing
    pc,               \* per call: the line of runETLPipeline it is at, 0 if none
    hasCb,            \* per call: onStepUpdate was given
    rawData,          \* per call: const rawData
    transformedData,  \* per call: const transformedData
    stack,            \* the calls that are executing, innermost last
    prev,             \* per call: getData() when it was called
    log,              \* per call: the invocations of onStepUpdate it made
    stages,           \* per call: the stages it executed
    emitted,          \* per call: the 'etl:complete' events it dispatched
    eventData,        \* per call: detail.data of the event it dispatched
    settled,          \* the call whose promise settled last, as it ended
    lastLoaded,       \* the transformed data of the last call that executed load
    tIn,              \* the argument of a call of transform on its own
    tOut,             \* its result
    spinning,         \* main.js: refreshBtn has the class 'spinning'
    etlStatus,        \* main.js: etlStatus.className and statusText.textContent
    overlay,          \* main.js: per accepted click, where its overlay is
    clicks,           \* the number of clicks the handler accepted
    uiCall,           \* the call of runETLPipeline the click handler awaits
    ignored,          \* the number of clicks that returned at the handler's guard
    heap,             \* the arrays and records in memory, by address
    refs,             \* the addresses the program's names hold
    nIn,              \* an integer field and a raw value of it, mapped on its own
    nOut              \* what the field was mapped to

progVars == <<source, processedData, isProcessing>>

callVars == <<pc, hasCb, rawData, transformedData, stack>>

histVars == <<prev, log, stages, emitted, eventData, lastLoaded>>

tVars == <<tIn, tOut>>

uiVars == <<spinning, etlStatus, overlay, clicks, uiCall, ignored>>

hVars == <<heap, refs>>

nVars == <<nIn, nOut>>

vars == <<progVars, callVars, histVars, settled, tVars, uiVars, hVars, nVars>>

NoRaw == [kind |-> "none", items |-> <<>>]

NotRun == [ok |-> FALSE, err |-> "not run", val |-> <<>>]

\* no call has settled yet
NoError == [name |-> "none", at |-> "none"]

NoneSettled ==
    [kind |-> "none", cb |-> FALSE, outcome |-> "none", ret |-> <<>>,
     error |-> NoError, prev |-> <<>>, data |-> <<>>, processing |-> FALSE, transformed |-> <<>>,
     log |-> <<>>, stages |-> <<>>, emitted |-> 0, eventData |-> <<>>]

\* the lines of runETLPipeline a call can be observed at: inside
\* onStepUpdate, suspended in `await delay(..)`, inside dispatchEvent
CbLines == {37, 40, 43, 46, 49, 52}

DelayLines == {38, 44, 50}

DispatchLine == 55

CbArgs(line) ==
    CASE line = 37 -> <<"extract", "active">>
      [] line = 40 -> <<"extract", "done">>
      [] line = 43 -> <<"transform", "active">>
      [] line = 46 -> <<"transform", "done">>
      [] line = 49 -> <<"load", "active">>
      [] OTHER -> <<"load", "done">>

\* ('load', 'active') left out
NextLineSkip(line) ==
    CASE line = 37 -> 38
      [] line = 40 -> 43
      [] line = 43 -> 44
      [] line = 46 -> 50
      [] line = 49 -> 50
      [] OTHER -> 55

\* the statement that follows the callback of a line
NextLine(line) ==
    CASE line = 37 -> 38
      [] line = 40 -> 43
      [] line = 43 -> 44
      [] line = 46 -> 49
      [] line = 49 -> 50
      [] OTHER -> 55

RECURSIVE Target(_, _)
\* onStepUpdate?.(..): without a callback the call goes on to the next
\* statement that is no callback
Target(cb, line) ==
    IF line \in CbLines /\ ~cb THEN Target(cb, NextLine(line)) ELSE line

Top(st) == IF st = <<>> THEN 0 ELSE st[Len(st)]

Pop(st, c) == IF Top(st) = c THEN SubSeq(st, 1, Len(st) - 1) ELSE st

Push(st, c) == IF Top(st) = c THEN st ELSE Append(st, c)

\* the number of clicks on the refresh button that the handler accepts
MaxClicks == 2

\* what index.html shows before the first click
StatusInitial == [className |-> "etl-status", text |-> ""]

\* lines 48-49
StatusProcessing ==
    [className |-> "etl-status processing", text |-> "Pipeline en cours..."]

\* lines 61-62
StatusSuccess == [className |-> "etl-status success", text |-> "Données à jour"]

\* lines 65-66
StatusError == [className |-> "etl-status error", text |-> "Erreur ETL"]

\* main.js after init(): no click yet
InitButton ==
    /\ spinning = FALSE
    /\ etlStatus = StatusInitial
    /\ overlay = [k \in 1..MaxClicks |-> "none"]
    /\ clicks = 0
    /\ uiCall = 0
    /\ ignored = 0

\* the size of the memory
HeapSize == 12

Free == [kind |-> "free", items |-> <<>>, rec |-> NoFields]

\* objects are followed by address in SpecHeap only
InitNoHeap ==
    /\ heap = [a \in 1..HeapSize |-> Free]
    /\ refs = [src |-> 0, pub |-> 0, raw |-> 0, trans |-> 0, at |-> 0,
               touched |-> FALSE, edited |-> {}]

\* no field is mapped on its own
InitNoField ==
    /\ nIn = [field |-> "annee", value |-> JSUndefined]
    /\ nOut = <<>>

InitPipeline ==
    /\ processedData = <<>>
    /\ isProcessing = FALSE
    /\ pc = [c \in Calls |-> 0]
    /\ hasCb = [c \in Calls |-> FALSE]
    /\ rawData = [c \in Calls |-> NoRaw]
    /\ transformedData = [c \in Calls |-> <<>>]
    /\ stack = <<>>
    /\ prev = [c \in Calls |-> <<>>]
    /\ log = [c \in Calls |-> <<>>]
    /\ stages = [c \in Calls |-> <<>>]
    /\ emitted = [c \in Calls |-> 0]
    /\ eventData = [c \in Calls |-> <<>>]
    /\ settled = NoneSettled
    /\ lastLoaded = <<>>

Init ==
    /\ source \in Sources
    /\ InitPipeline
    /\ InitButton
    /\ InitNoField
    /\ InitNoHeap
    /\ tIn = ArrayOf(<<>>)
    /\ tOut = NotRun

(***************************************************************************)
(* runETLPipeline                                                          *)
(***************************************************************************)
\* getData()
getData == processedData

\* the accessor with the flag inverted
isETLProcessingInverted == ~isProcessing

\* isETLProcessing()
isETLProcessing == isProcessing

\* the guard left out
RejectsNever(processing) == FALSE

\* line 32: `if (isProcessing) ..`
Rejects(processing) == processing

\* a duplicate answered with an empty dataset
GuardReturnEmpty(data) == <<>>

\* line 32: `.. return processedData;`
GuardReturn(data) == data

\* the flag not set
AcquireNever(processing) == processing

\* line 33: `isProcessing = true`
Acquire(processing) == TRUE

\* the flag left as it is
FinallyKeeps(processing) == processing

\* line 59: `isProcessing = false`
Finally(processing) == FALSE

\* The call leaves runETLPipeline (through the finally block of line 59 if
\* it passed the guard) and its promise settles.  What the call did (tr its
\* transformed data, st its stages, lg its callback invocations) and what the
\* accessors return at that instant is kept in `settled`; the call's own
\* variables are as before the call.
Settle(c, k, how, value, err, tr, st, lg) ==
    /\ pc' = [pc EXCEPT ![c] = 0]
    /\ stack' = Pop(stack, c)
    /\ hasCb' = [hasCb EXCEPT ![c] = FALSE]
    /\ rawData' = [rawData EXCEPT ![c] = NoRaw]
    /\ transformedData' = [transformedData EXCEPT ![c] = <<>>]
    /\ prev' = [prev EXCEPT ![c] = <<>>]
    /\ log' = [log EXCEPT ![c] = <<>>]
    /\ stages' = [stages EXCEPT ![c] = <<>>]
    /\ emitted' = [emitted EXCEPT ![c] = 0]
    /\ eventData' = [eventData EXCEPT ![c] = <<>>]
    /\ settled' = [kind |-> k, cb |-> hasCb[c], outcome |-> how, ret |-> value,
                   error |-> err,
                   prev |-> IF k = "run" THEN prev[c] ELSE processedData,
                   data |-> processedData', processing |-> isProcessing',
                   transformed |-> tr, log |-> lg, stages |-> st,
                   emitted |-> emitted[c], eventData |-> eventData[c]]

\* the error of a failed run caught and not raised again
FinishSwallows(c, how, value, err, tr, st) ==
    /\ isProcessing' = FALSE
    /\ Settle(c, "run", "returned", processedData', err, tr, st, log[c])

\* a call that passed the guard ends, by return or by an error
Finish(c, how, value, err, tr, st) ==
    /\ isProcessing' = Finally(isProcessing)
    /\ Settle(c, "run", how, value, err, tr, st, log[c])

\* the flag cleared before the event is dispatched
ReleasedAtDispatch(line, processing) ==
    IF line = DispatchLine THEN FALSE ELSE processing

\* lines 37-55 do not assign isProcessing: it is as it was at every line
\* the call arrives at
HeldAt(line, processing) == processing

\* Call c, having executed the stages st with the locals raw and tr, goes on
\* to `line`: it enters the callback of that line, or suspends in the delay
\* of that line, or dispatches 'etl:complete' (line 55), which hands
\* processedData to the listeners.  (dispatchEvent does not raise: an error
\* of a listener is reported by the window and does not reach the caller.)
Arrive(c, line, raw, tr, st) ==
    LET at == Target(hasCb[c], line)
    IN  /\ pc' = [pc EXCEPT ![c] = at]
        /\ log' = IF at \in CbLines
                  THEN [log EXCEPT ![c] = Append(@, CbArgs(at))]
                  ELSE log
        /\ stack' = IF at \in DelayLines THEN Pop(stack, c) ELSE Push(stack, c)
        /\ emitted' = IF at = DispatchLine
                      THEN [emitted EXCEPT ![c] = @ + 1]
                      ELSE emitted
        /\ eventData' = IF at = DispatchLine
                        THEN [eventData EXCEPT ![c] = processedData']
                        ELSE eventData
        /\ rawData' = [rawData EXCEPT ![c] = raw]
        /\ transformedData' = [transformedData EXCEPT ![c] = tr]
        /\ stages' = [stages EXCEPT ![c] = st]
        /\ isProcessing' = HeldAt(at, isProcessing)
        /\ UNCHANGED <<hasCb, prev, settled>>

\* A caller invokes runETLPipeline(onStepUpdate), cb telling whether a
\* callback is given: lines 32-38, up to the first callback or the first
\* delay.  The caller is a task of its own or code that runs inside a
\* callback or a listener of a call on the stack.
Call(c, cb) ==
    /\ pc[c] = 0
    /\ UNCHANGED <<source, processedData, lastLoaded, tVars>>
    /\ IF Rejects(isProcessing)
       THEN /\ UNCHANGED isProcessing
            /\ Settle(c, "duplicate", "returned", GuardReturn(processedData), NoError,
                      <<>>, <<>>, <<>>)
       ELSE /\ isProcessing' = Acquire(isProcessing)
            /\ hasCb' = [hasCb EXCEPT ![c] = cb]
            /\ prev' = [prev EXCEPT ![c] = processedData]
            /\ pc' = [pc EXCEPT ![c] = Target(cb, 37)]
            /\ log' = [log EXCEPT ![c] = IF cb THEN <<CbArgs(37)>> ELSE <<>>]
            /\ stack' = IF cb THEN Push(stack, c) ELSE stack
            /\ UNCHANGED <<rawData, transformedData, stages, emitted, eventData,
                           settled>>

\* onStepUpdate returns and the call runs on to its next callback, delay or
\* dispatch
CbReturn(c) ==
    /\ Top(stack) = c
    /\ pc[c] \in CbLines
    /\ UNCHANGED <<source, processedData, lastLoaded, tVars>>
    /\ Arrive(c, NextLine(pc[c]), rawData[c], transformedData[c], stages[c])

\* onStepUpdate raises: the error leaves the try block through finally
CbThrow(c) ==
    /\ Top(stack) = c
    /\ pc[c] \in CbLines
    /\ UNCHANGED <<source, processedData, lastLoaded, tVars>>
    /\ Finish(c, "raised", <<>>, [name |-> "CallbackError", at |-> "callback"],
              transformedData[c], stages[c])

\* the timer of the delay before load does not fire
DelayBeforeLost(stage) ==
    CASE stage = "extract" -> 38 [] stage = "transform" -> 44 [] OTHER -> 51

\* transform and load behind each other's delay
DelayBeforeSwapped(stage) ==
    CASE stage = "extract" -> 38 [] stage = "transform" -> 50 [] OTHER -> 44

\* lines 38, 44, 50: the `await delay(..)` that precedes the stage
DelayBefore(stage) ==
    CASE stage = "extract" -> 38 [] stage = "transform" -> 44 [] OTHER -> 50

\* lines 39-44 with r the outcome of extract()
AfterExtract(c, r, st) ==
    IF r.ok
    THEN Arrive(c, 40, r.val, transformedData[c], st)
    ELSE Finish(c, "raised", <<>>, [name |-> r.err, at |-> "extract"],
                transformedData[c], st)

\* the timer of `await delay(600)` fires: lines 39-44
ResumeExtract(c) ==
    /\ stack = <<>>
    /\ pc[c] = DelayBefore("extract")
    /\ UNCHANGED <<source, processedData, lastLoaded, tVars>>
    /\ AfterExtract(c, extract(source), Append(stages[c], "extract"))

\* lines 45-50 with r the outcome of transform(rawData)
AfterTransform(c, r, st) ==
    IF r.ok
    THEN Arrive(c, 46, rawData[c], r.val, st)
    ELSE Finish(c, "raised", <<>>, [name |-> r.err, at |-> "transform"],
                transformedData[c], st)

\* the timer of `await delay(800)` fires: lines 45-50
ResumeTransform(c) ==
    /\ stack = <<>>
    /\ pc[c] = DelayBefore("transform")
    /\ UNCHANGED <<source, processedData, lastLoaded, tVars>>
    /\ AfterTransform(c, transform(rawData[c]), Append(stages[c], "transform"))

\* the timer of `await delay(500)` fires: lines 51-55
ResumeLoad(c) ==
    /\ stack = <<>>
    /\ pc[c] = DelayBefore("load")
    /\ processedData' = load(transformedData[c])
    /\ lastLoaded' = transformedData[c]
    /\ UNCHANGED <<source, tVars>>
    /\ Arrive(c, 52, rawData[c], transformedData[c], Append(stages[c], "load"))

\* dispatchEvent returns: line 57, `return processedData`, then finally
DispatchReturn(c) ==
    /\ Top(stack) = c
    /\ pc[c] = DispatchLine
    /\ UNCHANGED <<source, processedData, lastLoaded, tVars>>
    /\ Finish(c, "returned", processedData, NoError, transformedData[c], stages[c])

\* the upstream replaces the batch that RAW_API_RESPONSE holds
SourceChange(src) ==
    /\ src # source
    /\ source' = src
    /\ UNCHANGED <<processedData, isProcessing, callVars, histVars, settled, tVars>>

\* runETLPipeline with callers of any kind; the refresh button is left alone
Next ==
    \/ \E c \in Calls, cb \in BOOLEAN : Call(c, cb) /\ UNCHANGED <<uiVars, hVars, nVars>>
    \/ \E c \in Calls : CbReturn(c) /\ UNCHANGED <<uiVars, hVars, nVars>>
    \/ \E c \in Calls : CbThrow(c) /\ UNCHANGED <<uiVars, hVars, nVars>>
    \/ \E c \in Calls : ResumeExtract(c) /\ UNCHANGED <<uiVars, hVars, nVars>>
    \/ \E c \in Calls : ResumeTransform(c) /\ UNCHANGED <<uiVars, hVars, nVars>>
    \/ \E c \in Calls : ResumeLoad(c) /\ UNCHANGED <<uiVars, hVars, nVars>>
    \/ \E c \in Calls : DispatchReturn(c) /\ UNCHANGED <<uiVars, hVars, nVars>>
    \/ \E src \in Sources : SourceChange(src) /\ UNCHANGED <<uiVars, hVars, nVars>>

Spec == Init /\ [][Next]_vars

(***************************************************************************)
(* transform applied to a batch on its own                                 *)
(***************************************************************************)
InitTransform ==
    /\ source = ArrayOf(<<>>)
    /\ InitPipeline
    /\ InitButton
    /\ InitNoField
    /\ InitNoHeap
    /\ tIn \in Batches
    /\ tOut = NotRun

ApplyTransform ==
    /\ tOut = NotRun
    /\ tOut' = transform(tIn)
    /\ UNCHANGED <<tIn, progVars, callVars, histVars, settled, uiVars, hVars, nVars>>

NextTransform == ApplyTransform

SpecTransform == InitTransform /\ [][NextTransform]_vars

InitDerived ==
    /\ source = ArrayOf(<<>>)
    /\ InitPipeline
    /\ InitButton
    /\ InitNoField
    /\ InitNoHeap
    /\ tIn \in DerivedBatches
    /\ tOut = NotRun

SpecDerived == InitDerived /\ [][NextTransform]_vars

InitCategory ==
    /\ source = ArrayOf(<<>>)
    /\ InitPipeline
    /\ InitButton
    /\ InitNoField
    /\ InitNoHeap
    /\ tIn \in CategoryBatches
    /\ tOut = NotRun

SpecCategory == InitCategory /\ [][NextTransform]_vars

InitLevel ==
    /\ source = ArrayOf(<<>>)
    /\ InitPipeline
    /\ InitButton
    /\ InitNoField
    /\ InitNoHeap
    /\ tIn \in LevelBatches
    /\ tOut = NotRun

SpecLevel == InitLevel /\ [][NextTransform]_vars

(***************************************************************************)
(* main.js: the refresh button (initETLButton)                             *)
(***************************************************************************)
\* success shown whatever the outcome
StatusAlwaysSuccess(outcome) == StatusSuccess

\* lines 55-66: the status after `await runETLPipeline(..)` returned or raised
StatusAfter(outcome) == IF outcome = "returned" THEN StatusSuccess ELSE StatusError

\* the mark not looked at
SpinningNever(mark) == FALSE

\* line 44: `refreshBtn.classList.contains('spinning')`
Spinning(mark) == mark

\* A click on the refresh button that passes the guard of line 44 (a click
\* while the button is spinning returns there and changes nothing): lines
\* 47-56, up to the first suspension of runETLPipeline, which the handler
\* calls with a callback as call c.
Click(c) ==
    /\ ~Spinning(spinning)
    /\ clicks < MaxClicks
    /\ \A d \in Calls : d < c => pc[d] # 0
    /\ spinning' = TRUE
    /\ etlStatus' = StatusProcessing
    /\ overlay' = [overlay EXCEPT ![clicks + 1] = "shown"]
    /\ clicks' = clicks + 1
    /\ uiCall' = c
    /\ Call(c, TRUE)
    /\ UNCHANGED <<ignored, hVars, nVars>>

\* line 44: a click on the button while it is spinning returns at once
ClickSpinning ==
    /\ Spinning(spinning)
    /\ ignored < MaxClicks
    /\ ignored' = ignored + 1
    /\ UNCHANGED <<spinning, etlStatus, overlay, clicks, uiCall, progVars,
                   callVars, histVars, settled, tVars, hVars, nVars>>

\* the promise of the handler's call has settled: lines 60-76, the try's
\* success or catch branch, then finally, which starts the timer of 400 ms
HandlerSettled ==
    /\ uiCall # 0
    /\ pc[uiCall] = 0
    /\ etlStatus' = StatusAfter(settled.outcome)
    /\ spinning' = FALSE
    /\ overlay' = [overlay EXCEPT ![clicks] = "timer 400"]
    /\ uiCall' = 0
    /\ UNCHANGED <<clicks, ignored, progVars, callVars, histVars, settled, tVars, hVars, nVars>>

\* lines 71-75: the timer of 400 ms fires, the overlay fades and the timer
\* of 300 ms starts
Fade(k) ==
    /\ overlay[k] = "timer 400"
    /\ overlay' = [overlay EXCEPT ![k] = "timer 300"]
    /\ UNCHANGED <<spinning, etlStatus, clicks, uiCall, ignored, progVars,
                   callVars, histVars, settled, tVars, hVars, nVars>>

\* line 74: the timer of 300 ms fires, `overlay.remove()`
Remove(k) ==
    /\ overlay[k] = "timer 300"
    /\ overlay' = [overlay EXCEPT ![k] = "removed"]
    /\ UNCHANGED <<spinning, etlStatus, clicks, uiCall, ignored, progVars,
                   callVars, histVars, settled, tVars, hVars, nVars>>

\* the values of RAW_API_RESPONSE.resultats under the button
UISources == {ArrayOf(<<RecEcole>>), ArrayOf(<<RecTypeNumber>>), SrcNull}

InitUI ==
    /\ source \in UISources
    /\ InitPipeline
    /\ InitButton
    /\ InitNoField
    /\ InitNoHeap
    /\ tIn = ArrayOf(<<>>)
    /\ tOut = NotRun

\* The application: the click handler is the only caller of runETLPipeline,
\* and its callback, updateLoadingStep, finds the elements of the overlay it
\* was given and returns.
NextUI ==
    \/ \E c \in Calls : Click(c)
    \/ ClickSpinning
    \/ \E c \in Calls : CbReturn(c) /\ UNCHANGED <<uiVars, hVars, nVars>>
    \/ \E c \in Calls : ResumeExtract(c) /\ UNCHANGED <<uiVars, hVars, nVars>>
    \/ \E c \in Calls : ResumeTransform(c) /\ UNCHANGED <<uiVars, hVars, nVars>>
    \/ \E c \in Calls : ResumeLoad(c) /\ UNCHANGED <<uiVars, hVars, nVars>>
    \/ \E c \in Calls : DispatchReturn(c) /\ UNCHANGED <<uiVars, hVars, nVars>>
    \/ HandlerSettled
    \/ \E k \in 1..MaxClicks : Fade(k)
    \/ \E k \in 1..MaxClicks : Remove(k)
    \/ \E src \in UISources : SourceChange(src) /\ UNCHANGED <<uiVars, hVars, nVars>>

\* the timer of `await delay(800)` fires: weak fairness of ResumeTransform,
\* with its enabling condition written out
FairTransform ==
    \/ []<>(\A c \in Calls : ~(pc[c] = DelayBefore("transform") /\ stack = <<>>))
    \/ []<><<\E c \in Calls : ResumeTransform(c) /\ UNCHANGED <<uiVars, hVars, nVars>>>>_vars

\* callbacks return, timers fire and settled promises run their reactions
SpecUI ==
    /\ InitUI
    /\ [][NextUI]_vars
    /\ WF_vars(\E c \in Calls : CbReturn(c) /\ UNCHANGED <<uiVars, hVars, nVars>>)
    /\ WF_vars(\E c \in Calls : ResumeExtract(c) /\ UNCHANGED <<uiVars, hVars, nVars>>)
    /\ FairTransform
    /\ WF_vars(\E c \in Calls : ResumeLoad(c) /\ UNCHANGED <<uiVars, hVars, nVars>>)
    /\ WF_vars(\E c \in Calls : DispatchReturn(c) /\ UNCHANGED <<uiVars, hVars, nVars>>)
    /\ WF_vars(HandlerSettled)
    /\ \A k \in 1..MaxClicks : WF_vars(Fade(k)) /\ WF_vars(Remove(k))

(***************************************************************************)
(* The objects of a run, by address: what extract copies and what the      *)
(* stages and the observers share                                          *)
(***************************************************************************)
ArrayCell(items) == [kind |-> "array", items |-> items, rec |-> NoFields]

RecordCell(rec) == [kind |-> "record", items |-> <<>>, rec |-> rec]

\* the k lowest free addresses from `from` on
RECURSIVE TakeFree(_, _, _)
TakeFree(h, k, from) ==
    IF k = 0 THEN <<>>
    ELSE LET a == CHOOSE x \in from..HeapSize :
                     /\ h[x].kind = "free"
                     /\ \A y \in from..(x - 1) : h[y].kind # "free"
         IN  <<a>> \o TakeFree(h, k - 1, a + 1)

\* a new array of new records: an array literal, JSON.parse, map, filter
StoreAt(h, recs, at) ==
    [addr |-> at[1],
     heap |-> [x \in 1..HeapSize |->
                 IF x = at[1] THEN ArrayCell(Tail(at))
                 ELSE IF \E i \in 1..Len(recs) : at[i + 1] = x
                      THEN RecordCell(recs[CHOOSE i \in 1..Len(recs) : at[i + 1] = x])
                      ELSE h[x]]]

Store(h, recs) == StoreAt(h, recs, TakeFree(h, Len(recs) + 1, 1))

\* the records of the array at address a, by value
Content(h, a) == [i \in 1..Len(h[a].items) |-> h[h[a].items[i]].rec]

\* the array at address a and its records
Reach(h, a) ==
    IF a = 0 THEN {} ELSE {a} \cup {h[a].items[i] : i \in 1..Len(h[a].items)}

\* what no name reaches any more is reclaimed
Collect(h, roots) ==
    [x \in 1..HeapSize |->
        IF \E a \in roots : x \in Reach(h, a) THEN h[x] ELSE Free]

\* `return RAW_API_RESPONSE.resultats`: the source's own array
extractShared(h, a) == [addr |-> a, heap |-> h]

\* extract(), line 70: JSON.parse builds a new array of new records from the
\* text JSON.stringify wrote
extractCopy(h, a) == Store(h, extract(ArrayOf(Content(h, a))).val.items)

\* what an edit leaves of a record: its name, under either naming
Edited(rec) ==
    IF "nom_batiment" \in DOMAIN rec
    THEN [rec EXCEPT !.nom_batiment = JSStr(<<"X">>)]
    ELSE [rec EXCEPT !.nom = <<"X">>]

\* the names under which the address is reached
Holders(h, r, a) ==
    {k \in {"raw", "trans", "pub"} :
        a \in Reach(h, CASE k = "raw" -> r.raw [] k = "trans" -> r.trans
                         [] OTHER -> r.pub)}

Idle(r) == [r EXCEPT !.raw = 0, !.trans = 0, !.at = 0, !.touched = FALSE]

\* the source batches whose objects are followed
HeapSources ==
    {ArrayOf(<<RecEcole, RecPiscine>>), ArrayOf(<<RecEcole>>),
     ArrayOf(<<RecNoElec, RecEcole>>), ArrayOf(<<RecTypeNumber>>)}

\* rawData.js has built the source batch, pipeline.js line 11 an empty array
InitHeap ==
    /\ source \in HeapSources
    /\ InitPipeline
    /\ InitButton
    /\ InitNoField
    /\ tIn = ArrayOf(<<>>)
    /\ tOut = NotRun
    /\ heap = Store(Store([a \in 1..HeapSize |-> Free], source.items).heap, <<>>).heap
    /\ refs = [src |-> 1, pub |-> Len(source.items) + 2, raw |-> 0, trans |-> 0,
               at |-> 0, touched |-> FALSE, edited |-> {}]

ValuesSame ==
    UNCHANGED <<progVars, callVars, histVars, settled, tVars, uiVars, nVars>>

\* lines 32-39: a run starts and extracts
HExtracted(r) ==
    /\ heap' = r.heap
    /\ refs' = [refs EXCEPT !.raw = r.addr, !.at = 44, !.touched = FALSE]

HExtract ==
    /\ refs.at = 0
    /\ HExtracted(extractCopy(heap, refs.src))
    /\ ValuesSame

\* lines 45 and 83-116: transform builds new records in a new array, or
\* throws and the run ends
HTransformed(t) ==
    IF t.ok
    THEN /\ heap' = Store(heap, t.val).heap
         /\ refs' = [refs EXCEPT !.trans = TakeFree(heap, 1, 1)[1], !.at = 50]
    ELSE /\ heap' = Collect(heap, {refs.src, refs.pub})
         /\ refs' = Idle(refs)

HTransform ==
    /\ refs.at = 44
    /\ HTransformed(transform(ArrayOf(Content(heap, refs.raw))))
    /\ ValuesSame

\* lines 51-57 and 128: load returns the array it was given, which
\* processedData and the event's detail then hold
HLoad ==
    /\ refs.at = 50
    /\ heap' = Collect(heap, {refs.src, refs.trans})
    /\ refs' = [Idle(refs) EXCEPT !.pub = refs.trans]
    /\ ValuesSame

\* a stage or an observer writes a field of a record it was handed
HEditRecord(a) ==
    /\ Holders(heap, refs, a) # {}
    /\ heap[a].kind = "record"
    /\ heap[a].rec # Edited(heap[a].rec)
    /\ heap' = [heap EXCEPT ![a].rec = Edited(heap[a].rec)]
    /\ refs' = [refs EXCEPT
                  !.touched = @ \/ Holders(heap, refs, a) \cap {"raw", "trans"} # {},
                  !.edited = @ \cup Holders(heap, refs, a)]
    /\ ValuesSame

\* a stage or an observer removes the last record of an array it was handed
HPop(a) ==
    /\ a \in {refs.raw, refs.trans, refs.pub} \ {0}
    /\ heap[a].items # <<>>
    /\ heap' = Collect([heap EXCEPT ![a].items = SubSeq(@, 1, Len(@) - 1)],
                       {refs.src, refs.raw, refs.trans, refs.pub})
    /\ refs' = [refs EXCEPT
                  !.touched = @ \/ Holders(heap, refs, a) \cap {"raw", "trans"} # {},
                  !.edited = @ \cup Holders(heap, refs, a)]
    /\ ValuesSame

NextHeap ==
    \/ HExtract
    \/ HTransform
    \/ HLoad
    \/ \E a \in 1..HeapSize : HEditRecord(a)
    \/ \E a \in 1..HeapSize : HPop(a)

SpecHeap == InitHeap /\ [][NextHeap]_vars

(***************************************************************************)
(* runETLPipeline under a scheduler: callbacks return or throw, the timers *)
(* of delay() fire (lines 133-135), listeners return                       *)
(***************************************************************************)
LiveSources == {ArrayOf(<<RecEcole>>), ArrayOf(<<RecTypeNumber>>)}

InitLive ==
    /\ source \in LiveSources
    /\ InitPipeline
    /\ InitButton
    /\ InitNoField
    /\ InitNoHeap
    /\ tIn = ArrayOf(<<>>)
    /\ tOut = NotRun

NextLive ==
    \/ \E c \in Calls, cb \in BOOLEAN : Call(c, cb) /\ UNCHANGED <<uiVars, hVars, nVars>>
    \/ \E c \in Calls : CbReturn(c) /\ UNCHANGED <<uiVars, hVars, nVars>>
    \/ \E c \in Calls : CbThrow(c) /\ UNCHANGED <<uiVars, hVars, nVars>>
    \/ \E c \in Calls : ResumeExtract(c) /\ UNCHANGED <<uiVars, hVars, nVars>>
    \/ \E c \in Calls : ResumeTransform(c) /\ UNCHANGED <<uiVars, hVars, nVars>>
    \/ \E c \in Calls : ResumeLoad(c) /\ UNCHANGED <<uiVars, hVars, nVars>>
    \/ \E c \in Calls : DispatchReturn(c) /\ UNCHANGED <<uiVars, hVars, nVars>>
    \/ \E src \in LiveSources : SourceChange(src) /\ UNCHANGED <<uiVars, hVars, nVars>>

\* a callback that is entered is left, by return or by an error
FairCallback ==
    WF_vars(\E c \in Calls : (CbReturn(c) \/ CbThrow(c)) /\ UNCHANGED <<uiVars, hVars, nVars>>)

SpecLive ==
    /\ InitLive
    /\ [][NextLive]_vars
    /\ FairCallback
    /\ WF_vars(\E c \in Calls : ResumeExtract(c) /\ UNCHANGED <<uiVars, hVars, nVars>>)
    /\ FairTransform
    /\ WF_vars(\E c \in Calls : ResumeLoad(c) /\ UNCHANGED <<uiVars, hVars, nVars>>)
    /\ WF_vars(\E c \in Calls : DispatchReturn(c) /\ UNCHANGED <<uiVars, hVars, nVars>>)

(***************************************************************************)
(* One integer field mapped on its own: lines 87-91 and 95 of transform    *)
(***************************************************************************)
\* the integer fields of the mapped record and the raw fields they are read from
IntegerFields ==
    [electricite_kwh |-> "conso_elec_kwh", gaz_kwh |-> "conso_gaz_kwh",
     eau_m3 |-> "conso_eau_m3", surface_m2 |-> "surface_m2", annee |-> "annee",
     occupants |-> "nb_occupants"]

\* raw values of a field: missing, empty, blank, no number, numbers with and
\* without fraction and sign as strings and as native values, booleans,
\* Infinity
NumberInputs ==
    {JSNull, JSUndefined, JSStr(<<>>), JSStr(<<" ", " ">>),
     JSStr(<<"a", "b", "c">>), JSStr(<<"1", "2", "a", "b", "c">>),
     JSStr(<<"1", "5", "0", "0", "0">>), JSStr(<<" ", "4", "2", " ">>),
     JSStr(<<"3", ".", "5">>), JSStr(<<"2", ".", "5">>), JSStr(<<"0", ".", "4">>),
     JSStr(<<"-", "2", ".", "5">>), JSStr(<<"-", "3", ".", "7">>),
     JSStr(<<"-", "0", ".", "4">>), JSStr(<<"+", "8">>), JSStr(<<".", "5">>),
     JSStr(<<"1", ".">>), JSStr(<<"0">>),
     JSInt(7), JSNum(25, 10), JSNum(-15, 10), JSNum(1249, 100),
     JSBool(TRUE), JSBool(FALSE),
     JSStr(InfinityLiteral), JSStr(<<"-">> \o InfinityLiteral)}

InitNumber ==
    /\ source = ArrayOf(<<>>)
    /\ InitPipeline
    /\ InitButton
    /\ InitNoHeap
    /\ tIn = ArrayOf(<<>>)
    /\ tOut = NotRun
    /\ nIn \in [field : DOMAIN IntegerFields, value : NumberInputs]
    /\ nOut = <<>>

\* lines 83-96 applied to a record that holds the one field
ApplyMap ==
    /\ nOut = <<>>
    /\ nOut' = <<MapRecord([NoFields EXCEPT ![IntegerFields[nIn.field]] = nIn.value])[nIn.field]>>
    /\ UNCHANGED <<nIn, progVars, callVars, histVars, settled, tVars, uiVars, hVars>>

NextNumber == ApplyMap

SpecNumber == InitNumber /\ [][NextNumber]_vars

(***************************************************************************)
(* views/cartography.js: the intensity column of the table                 *)
(***************************************************************************)
\* getIntensityClass(value) for a finite number
getIntensityClass(value) ==
    IF value.n < 30 * value.d THEN "consumption-low"
    ELSE IF value.n < 60 * value.d THEN "consumption-medium"
    ELSE "consumption-high"

\* renderTable, lines 299-306: the class of the cell of the column
\* intensite_energetique in the row of a record
IntensityCell(row) == getIntensityClass(row.intensite_energetique)

TypeOK ==
    /\ isProcessing \in BOOLEAN
    /\ \A c \in Calls : pc[c] \in {0} \cup CbLines \cup DelayLines \cup {DispatchLine}

(***************************************************************************)
(* Properties of the orchestrator                                          *)
(***************************************************************************)
Running == {c \in Calls : pc[c] # 0}

FullLog ==
    <<CbArgs(37), CbArgs(40), CbArgs(43), CbArgs(46), CbArgs(49), CbArgs(52)>>

IsPrefix(a, b) == Len(a) <= Len(b) /\ a = SubSeq(b, 1, Len(a))

Has(seq, x) == \E i \in 1..Len(seq) : seq[i] = x

\* C1 -- single flight: at most one call is inside the Extract/Transform/Load
\* sequence at any time, a call made while isProcessing is set is answered
\* without executing a stage, and a run that returns leaves as published
\* dataset exactly the data it transformed itself.
C1_SingleFlight ==
    /\ Cardinality(Running) <= 1
    /\ settled.kind = "duplicate" => settled.stages = <<>>
    /\ (settled.kind = "run" /\ settled.outcome = "returned")
          => /\ settled.data = settled.transformed
             /\ settled.ret = settled.transformed
             /\ settled.stages = <<"extract", "transform", "load">>

\* a second start was answered as a duplicate while the first run had done
\* its Extract and Transform and was waiting to Load
C1_Witness ==
    /\ settled.kind = "duplicate"
    /\ \E c \in Calls : pc[c] = 50 /\ transformedData[c] # <<>>

\* C2 -- a start made while a run is Running starts nothing, and the step
\* that answers it changes nothing but the caller's result, which is the
\* published dataset: no callback is invoked, no event emitted, processedData,
\* isProcessing and the run in progress stay as they are.
C2_DuplicateNoEffect ==
    [][isProcessing =>
        /\ \A c \in Calls : pc[c] = 0 => pc'[c] = 0
        /\ (settled' # settled /\ settled'.kind = "duplicate") =>
              /\ settled'.outcome = "returned"
              /\ settled'.ret = processedData
              /\ settled'.log = <<>>
              /\ settled'.emitted = 0
              /\ settled'.stages = <<>>
              /\ UNCHANGED <<progVars, callVars, histVars>>]_vars

\* a duplicate was answered with a published dataset that is not empty while
\* a run was suspended
C2_Witness ==
    /\ settled.kind = "duplicate"
    /\ settled.ret # <<>>
    /\ isProcessing
    /\ \E c \in Calls : pc[c] \in DelayLines

\* C3 -- when an accepted run ends, by return or by an error of any origin,
\* isProcessing is false; and whenever no run is in progress isProcessing is
\* false, so that the next start is accepted.
C3_NoLockOut ==
    /\ settled.kind = "run" => ~settled.processing
    /\ Running = {} => ~isETLProcessing

\* a run is in progress after an earlier run ended with an error
C3_Witness ==
    /\ settled.kind = "run"
    /\ settled.outcome = "raised"
    /\ Running # {}

\* C4 -- a run whose Extract fails executes neither Transform nor Load, emits
\* no event, raises the error to its caller, leaves the published dataset as
\* it was when the run started and leaves the orchestrator Idle.
C4_ExtractFailure ==
    (settled.kind = "run" /\ settled.error.at = "extract") =>
        /\ settled.outcome = "raised"
        /\ settled.stages = <<"extract">>
        /\ settled.emitted = 0
        /\ IsPrefix(settled.log, <<CbArgs(37)>>)
        /\ settled.data = settled.prev
        /\ ~settled.processing

\* Extract failed in a run that started with a published dataset
C4_Witness ==
    /\ settled.kind = "run"
    /\ settled.error.at = "extract"
    /\ settled.outcome = "raised"
    /\ settled.prev # <<>>

\* C5 -- whenever runETLPipeline raises an error the orchestrator is Idle and
\* the published dataset is the one published before that run started.
C5_NoPartialPublish ==
    (settled.kind = "run" /\ settled.outcome = "raised") =>
        /\ ~settled.processing
        /\ settled.data = settled.prev

\* C6 -- the published dataset is replaced as a whole: while a run is in
\* progress getData() is the dataset published when the run started until
\* the run has executed load, and the run's complete transformed data from
\* then on; between runs it is what it was when the last call ended.
C6_AtomicPublish ==
    /\ \A c \in Running :
          /\ getData = IF Has(stages[c], "load") THEN transformedData[c] ELSE prev[c]
          /\ IsPrefix(stages[c], <<"extract", "transform", "load">>)
    /\ (Running = {} /\ settled.kind # "none") => getData = settled.data

\* a run has replaced a published dataset by a different one and is inside
\* its ('load', 'done') callback
C6_Witness ==
    \E c \in Calls :
        /\ pc[c] = 52
        /\ prev[c] # <<>>
        /\ transformedData[c] # prev[c]
        /\ getData = transformedData[c]

\* C7 -- the callback invocations of a run are a prefix of (extract, active),
\* (extract, done), (transform, active), (transform, done), (load, active),
\* (load, done), and all six in a run that returns (given a callback).
C7_ProgressProtocol ==
    /\ \A c \in Calls : IsPrefix(log[c], FullLog)
    /\ IsPrefix(settled.log, FullLog)
    /\ (settled.kind = "run" /\ settled.outcome = "returned" /\ settled.cb)
          => settled.log = FullLog

\* a run with a callback returned, and so did its six invocations
C7_Witness ==
    /\ settled.kind = "run"
    /\ settled.outcome = "returned"
    /\ settled.cb
    /\ Len(settled.log) = 6

\* C8 -- every run that executes load emits exactly one 'etl:complete' event,
\* whose payload is the published dataset; a failed run and a duplicate emit
\* none.
C8_CompletionEvent ==
    /\ \A c \in Calls : pc[c] = DispatchLine =>
          emitted[c] = 1 /\ eventData[c] = getData
    /\ (settled.kind = "run" /\ Has(settled.stages, "load"))
          => settled.emitted = 1 /\ settled.eventData = settled.data
    /\ (settled.kind = "duplicate" \/ settled.outcome = "raised")
          => settled.emitted = 0

\* C9 -- getData() is empty until a run has executed load and then the
\* transformed data of the last run that executed load; isETLProcessing() is
\* true exactly while an accepted run is in progress.
C9_QueryInterface ==
    /\ getData = lastLoaded
    /\ isETLProcessing <=> Running # {}

\* after a successful run and a failed one the accessor still returns the
\* data of the successful run, while the next run is suspended
C9_Witness ==
    /\ getData # <<>>
    /\ getData = lastLoaded
    /\ settled.kind = "run"
    /\ settled.outcome = "raised"
    /\ isETLProcessing
    /\ \E c \in Calls : pc[c] \in DelayLines

(***************************************************************************)
(* Properties of transform                                                 *)
(***************************************************************************)
\* the twelve fields of step 1 of a record of the output
Mapped(r) ==
    [nom |-> r.nom, type |-> r.type, adresse |-> r.adresse,
     electricite_kwh |-> r.electricite_kwh, gaz_kwh |-> r.gaz_kwh,
     eau_m3 |-> r.eau_m3, surface_m2 |-> r.surface_m2, annee |-> r.annee,
     latitude |-> r.latitude, longitude |-> r.longitude,
     classe_dpe |-> r.classe_dpe, occupants |-> r.occupants]

\* name non-empty, latitude and longitude neither 0 nor null, electricity > 0
Retained(m) ==
    /\ Len(m.nom) > 0
    /\ m.latitude # JSNull /\ m.latitude # JSInt(0)
    /\ m.longitude # JSNull /\ m.longitude # JSInt(0)
    /\ m.electricite_kwh >= 1

\* C10 -- a raw record's mapped form is in the output of transform if and only
\* if its name is non-empty, its latitude and longitude are neither 0 nor
\* null and its electricity is positive; a record with conso_elec_kwh "0" is
\* absent; the output has one record for each retained raw record and no other.
C10_FilterCorrect ==
    tOut.ok =>
        LET raw == tIn.items
            out == tOut.val
            kept == {i \in 1..Len(raw) : Retained(MapRecord(raw[i]))}
        IN  /\ \A i \in 1..Len(raw) :
                  (\E j \in 1..Len(out) : Mapped(out[j]) = MapRecord(raw[i]))
                      <=> i \in kept
            /\ \A i \in 1..Len(raw) :
                  raw[i].conso_elec_kwh = JSStr(<<"0">>) =>
                      \A j \in 1..Len(out) : Mapped(out[j]) # MapRecord(raw[i])
            /\ Len(out) = Cardinality(kept)
            /\ \A j \in 1..Len(out) :
                  Cardinality({i \in kept : MapRecord(raw[i]) = Mapped(out[j])})
                      = Cardinality({k \in 1..Len(out) : Mapped(out[k]) = Mapped(out[j])})

\* transform returned a batch of which it kept one record and dropped the
\* record whose conso_elec_kwh is "0" and whose other fields are good
C10_Witness ==
    /\ tOut.ok
    /\ Len(tIn.items) = 2
    /\ Len(tOut.val) = 1
    /\ \E i \in 1..2 : tIn.items[i] = RecNoElec

\* C11 -- transform never raises: for every raw batch, whatever its records'
\* fields hold (missing, null, empty, non-numeric, a number, a boolean, a
\* type_infra that is no string), transform returns a sequence.
C11_NeverThrows == tOut # NotRun => tOut.ok

\* C12 -- every record of the published dataset has a non-empty name, an
\* integer electricity_kwh > 0, a latitude and a longitude that are not zero,
\* and integers >= 0 as gas_kwh, water_m3, floor_area_m2, year and occupants.
C12_CanonicalInvariants ==
    \A i \in 1..Len(processedData) :
        /\ Len(processedData[i].nom) > 0
        /\ processedData[i].electricite_kwh \in Int
        /\ processedData[i].electricite_kwh > 0
        /\ Truthy(processedData[i].latitude)
        /\ Truthy(processedData[i].longitude)
        /\ \A v \in {processedData[i].gaz_kwh, processedData[i].eau_m3,
                     processedData[i].surface_m2, processedData[i].annee,
                     processedData[i].occupants} : v \in Int /\ v >= 0

\* k is a / b rounded to the nearest integer, a half rounded up (b > 0)
IsRounded(k, a, b) == 2 * k * b - b <= 2 * a /\ 2 * a < 2 * k * b + b

\* m times the finite number v, for a v with at most as many decimals as m
Scaled(v, m) == v.n * (m \div v.d)

C14_ConsumptionLevel ==
    tOut.ok =>
        \A j \in 1..Len(tOut.val) :
            LET r == tOut.val[j]
            IN  /\ r.niveau_conso \in {"low", "medium", "high"}
                /\ IF r.surface_m2 > 0
                   THEN /\ r.niveau_conso = "low"
                             <=> r.energie_totale_kwh < 30 * r.surface_m2
                        /\ r.niveau_conso = "medium"
                             <=> /\ 30 * r.surface_m2 <= r.energie_totale_kwh
                                 /\ r.energie_totale_kwh < 60 * r.surface_m2
                        /\ r.niveau_conso = "high"
                             <=> r.energie_totale_kwh >= 60 * r.surface_m2
                   ELSE r.niveau_conso = "medium"

\* the output holds a record of exactly 60 kWh/m2 classified high and one of
\* exactly 30 kWh/m2 classified medium
C14_Witness ==
    /\ tOut.ok
    /\ Len(tOut.val) = 2
    /\ tOut.val[1].energie_totale_kwh = 60 * tOut.val[1].surface_m2
    /\ tOut.val[1].niveau_conso = "high"
    /\ tOut.val[2].energie_totale_kwh = 30 * tOut.val[2].surface_m2
    /\ tOut.val[2].surface_m2 > 0
    /\ tOut.val[2].niveau_conso = "medium"

RECURSIVE Survivors(_)
\* the records of the raw batch that pass the filter, with their computed
\* fields, in the order of the batch
Survivors(raw) ==
    IF raw = <<>> THEN <<>>
    ELSE (IF Retained(MapRecord(Head(raw)))
          THEN <<Derive(MapRecord(Head(raw)))>>
          ELSE <<>>) \o Survivors(Tail(raw))

\* the records of seq whose total is t, in their order
RECURSIVE WithTotal(_, _)
WithTotal(seq, t) ==
    IF seq = <<>> THEN <<>>
    ELSE (IF Head(seq).energie_totale_kwh = t THEN <<Head(seq)>> ELSE <<>>)
         \o WithTotal(Tail(seq), t)

\* C15 -- transform's output is non-increasing by energie_totale_kwh, it is a
\* permutation of the records that passed the filter, and the records of one
\* total appear in the order they have in the raw batch.
C15_SortStable ==
    tOut.ok =>
        /\ \A j \in 1..Len(tOut.val) - 1 :
              tOut.val[j].energie_totale_kwh >= tOut.val[j + 1].energie_totale_kwh
        /\ Len(tOut.val) = Len(Survivors(tIn.items))
        /\ \A j \in 1..Len(tOut.val) :
              WithTotal(tOut.val, tOut.val[j].energie_totale_kwh)
                 = WithTotal(Survivors(tIn.items), tOut.val[j].energie_totale_kwh)

\* two different records of one total were kept, in the order of the batch
C15_Witness ==
    /\ tOut.ok
    /\ Len(tOut.val) = 2
    /\ Len(tIn.items) = 2
    /\ tOut.val[1].energie_totale_kwh = tOut.val[2].energie_totale_kwh
    /\ tOut.val[1] # tOut.val[2]
    /\ tOut.val[1].nom = cleanString(tIn.items[1].nom_batiment)
    /\ tOut.val[1].nom # tOut.val[2].nom

\* a category that is missing: null, undefined, the empty string, 0, false
Missing(ty) == ty \in {JSNull, JSUndefined, JSStr(<<>>), JSInt(0), JSBool(FALSE)}

\* a category string that is, in upper case, the k-th code of the table
Recognized(ty, k) == ty.t = "string" /\ ToUpperCase(ty.s) = TypeKeys[k]

Unrecognized(ty) ==
    /\ ty.t = "string"
    /\ ty.s # <<>>
    /\ \A k \in 1..Len(TypeKeys) : ~Recognized(ty, k)

\* C16 as stated -- a recognized code, in any letter case, maps to its label;
\* an unrecognized or missing category maps to "Autre".
C16_CategoryAutre ==
    tOut.ok =>
        /\ Len(tOut.val) = Len(tIn.items)
        /\ \A i \in 1..Len(tOut.val) :
              /\ \A k \in 1..Len(TypeKeys) :
                    Recognized(tIn.items[i].type_infra, k)
                        => tOut.val[i].type = TypeLabels[k]
              /\ (\A k \in 1..Len(TypeKeys) : ~Recognized(tIn.items[i].type_infra, k))
                    => tOut.val[i].type = Autre

\* C16 as amended -- a recognized code, in any letter case, maps to its label;
\* a missing category maps to "Autre"; a category string that is not in the
\* table is kept as it is.
C16_CategoryPassthrough ==
    tOut.ok =>
        /\ Len(tOut.val) = Len(tIn.items)
        /\ \A i \in 1..Len(tOut.val) :
              /\ \A k \in 1..Len(TypeKeys) :
                    Recognized(tIn.items[i].type_infra, k)
                        => tOut.val[i].type = TypeLabels[k]
              /\ Missing(tIn.items[i].type_infra) => tOut.val[i].type = Autre
              /\ Unrecognized(tIn.items[i].type_infra)
                    => tOut.val[i].type = tIn.items[i].type_infra.s

\* 'piscine' came out as 'Piscine' and 'z', which is not in the table, as 'z'
C16_Witness ==
    /\ tOut.ok
    /\ Len(tOut.val) = 2
    /\ tIn.items[1].type_infra = JSStr(<<"p", "i", "s", "c", "i", "n", "e">>)
    /\ tOut.val[1].type = <<"P", "i", "s", "c", "i", "n", "e">>
    /\ tIn.items[2].type_infra = JSStr(<<"z">>)
    /\ tOut.val[2].type = <<"z">>

\* C18: each run works on a new deep copy of the source batch: the source
\* batch keeps its records and their content whatever is written to the
\* extracted, transformed or published records and arrays, the extracted
\* objects are none of the source's or of the published ones, and a run none
\* of whose own objects was written to publishes the transform of the source
\* batch whatever was written before
C18_SnapshotIsolation ==
    /\ [](Content(heap, refs.src) = source.items)
    /\ [](Reach(heap, refs.src)
            \cap (Reach(heap, refs.raw) \cup Reach(heap, refs.trans)
                    \cup Reach(heap, refs.pub)) = {})
    /\ [](Reach(heap, refs.raw) \cap Reach(heap, refs.pub) = {})
    /\ []((refs.at = 44 /\ ~refs.touched)
            => Content(heap, refs.raw) = extract(source).val.items)
    /\ [][(refs.at = 50 /\ refs'.at = 0 /\ ~refs.touched)
            => Content(heap', refs'.pub) = transform(extract(source).val).val]_vars

\* extracted, transformed and published objects were written to, and a run
\* after that has published the transform of the source batch
C18_Witness ==
    /\ refs.edited = {"raw", "trans", "pub"}
    /\ refs.at = 0
    /\ Content(heap, refs.pub) # <<>>
    /\ Content(heap, refs.pub) = transform(extract(source).val).val
    /\ Content(heap, refs.src) = source.items

\* C19 -- a run whose Extract cannot obtain the raw data fails with the error
\* SourceUnavailable, before Transform begins: no (transform, active)
\* notification, no Transform, no Load.
C19_SourceUnavailable ==
    (settled.kind = "run" /\ settled.error.at = "extract") =>
        /\ settled.outcome = "raised"
        /\ settled.error.name = "SourceUnavailable"
        /\ ~Has(settled.log, CbArgs(43))
        /\ ~Has(settled.stages, "transform")
        /\ ~Has(settled.stages, "load")

\* C20 -- the click handler reports the outcome of the run it started: while
\* it waits the button spins and the status is 'processing'; once the run has
\* settled the status is 'success' ('Données à jour') if the run returned and
\* 'error' ('Erreur ETL') if it raised, never 'success' for a run that
\* raised, and the button no longer spins; the overlay of every accepted
\* click is eventually removed.
C20_UIOutcome ==
    /\ [](spinning <=> uiCall # 0)
    /\ [](spinning => etlStatus = StatusProcessing)
    /\ []((~spinning /\ clicks > 0) =>
            /\ settled.outcome = "returned" => etlStatus = StatusSuccess
            /\ settled.outcome = "raised" => etlStatus = StatusError
            /\ settled.outcome \in {"returned", "raised"})
    /\ spinning ~> ~spinning
    /\ \A k \in 1..MaxClicks :
          (overlay[k] # "none") ~> (overlay[k] = "removed")

\* the run of the first click raised and the run of the second returned; the
\* status is 'success', the button does not spin and both overlays are gone
C20_Witness ==
    /\ clicks = 2
    /\ ~spinning
    /\ etlStatus = StatusSuccess
    /\ settled.outcome = "returned"
    /\ overlay[1] = "removed"
    /\ overlay[2] = "removed"

\* C21 -- the guard spans every suspension point: a run is inside a progress
\* callback, suspended in one of its three delays or dispatching its event
\* only with isProcessing set; isProcessing is set by the step that starts a
\* run, which reaches the first callback or the first delay, and is cleared
\* only by a step that ends a run, by return or by an error, and by every
\* such step.
C21_GuardSpans ==
    /\ [](\A c \in Calls :
            pc[c] \in CbLines \cup DelayLines \cup {DispatchLine} => isProcessing)
    /\ [][(~isProcessing /\ isProcessing')
            => \E c \in Calls : pc[c] = 0 /\ pc'[c] \in {37, 38}]_vars
    /\ [][(isProcessing /\ ~isProcessing')
            => \E c \in Calls : pc[c] # 0 /\ pc'[c] = 0 /\ settled'.kind = "run"]_vars
    /\ [][(\E c \in Calls : pc[c] # 0 /\ pc'[c] = 0) => ~isProcessing']_vars

\* a run waits in its third delay with the guard set, after an earlier run
\* ended with an error of its transform and cleared the guard
C21_Witness ==
    /\ \E c \in Calls : pc[c] = 50 /\ isProcessing
    /\ settled.kind = "run"
    /\ settled.outcome = "raised"
    /\ settled.error.at = "transform"
    /\ ~settled.processing

\* the stages a run has executed when it is at a line
StagesDone(line) ==
    CASE line \in {0, 37, 38} -> <<>>
      [] line \in {40, 43, 44} -> <<"extract">>
      [] line \in {46, 49, 50} -> <<"extract", "transform">>
      [] OTHER -> <<"extract", "transform", "load">>

StageAfter(line) ==
    CASE line = 38 -> "extract" [] line = 44 -> "transform" [] OTHER -> "load"

\* C22 -- the stages run in strict sequence with one suspension before each:
\* where a run is tells which stages it has executed (none up to the first
\* delay, extract up to the second, extract and transform up to the third,
\* all three after it); a stage is executed only by the step that resumes
\* the run from the delay before that stage, with no other call executing,
\* and that step holds the whole stage: it ends in the next callback, delay or
\* dispatch with the stage recorded once, or ends the run with the stage's
\* error.
C22_StrictSequence ==
    /\ [](\A c \in Calls : stages[c] = StagesDone(pc[c]))
    /\ [][\A c \in Calls :
            (stages'[c] # stages[c] /\ pc'[c] # 0) =>
                /\ pc[c] \in DelayLines
                /\ stack = <<>>
                /\ stages'[c] = Append(stages[c], StageAfter(pc[c]))
                /\ pc'[c] > pc[c]]_vars
    /\ [][\A c \in Calls :
            (pc[c] # 0 /\ pc'[c] = 0) =>
                /\ settled'.stages = IF pc[c] \in DelayLines
                                      THEN Append(stages[c], StageAfter(pc[c]))
                                      ELSE stages[c]
                /\ IsPrefix(settled'.stages, <<"extract", "transform", "load">>)]_vars

\* a run that executed extract and transform waits in the delay before load,
\* after a run that executed the three stages
C22_Witness ==
    /\ \E c \in Calls : pc[c] = 50 /\ stages[c] = <<"extract", "transform">>
    /\ settled.kind = "run"
    /\ settled.stages = <<"extract", "transform", "load">>

\* C23 -- every accepted run terminates: when the timers of the delays fire
\* and callbacks and listeners come back, a run that was started ends and
\* isProcessing is cleared again; a run that ended without an error of a
\* stage or a callback has executed its three stages, published the data it
\* transformed, emitted one completion event with that data and returned it.
C23_RunTerminates ==
    /\ \A c \in Calls : (pc[c] # 0) ~> (pc[c] = 0)
    /\ isProcessing ~> ~isProcessing
    /\ []((settled.kind = "run" /\ settled.error = NoError) =>
            /\ settled.outcome = "returned"
            /\ settled.stages = <<"extract", "transform", "load">>
            /\ settled.data = settled.transformed
            /\ settled.ret = settled.data
            /\ settled.emitted = 1
            /\ settled.eventData = settled.data
            /\ ~settled.processing)

\* a run has ended without an error and published a record, and nothing is
\* running
C23_Witness ==
    /\ settled.kind = "run"
    /\ settled.error = NoError
    /\ Len(settled.data) = 1
    /\ settled.emitted = 1
    /\ Running = {}
    /\ ~isProcessing

\* C24 -- niveau_conso is decided from the unrounded ratio and not from
\* intensite_energetique: a record of transform's output that shows an
\* intensity of exactly 30 is 'low' when its total is below 30 times its
\* surface and 'medium' otherwise, and one that shows exactly 60 is 'medium'
\* when its total is below 60 times its surface and 'high' otherwise.
C24_LevelFromUnrounded ==
    tOut.ok =>
        \A j \in 1..Len(tOut.val) :
            LET r == tOut.val[j]
            IN  r.surface_m2 > 0 =>
                  /\ r.intensite_energetique = JSInt(30) =>
                        r.niveau_conso =
                            IF r.energie_totale_kwh < 30 * r.surface_m2
                            THEN "low" ELSE "medium"
                  /\ r.intensite_energetique = JSInt(60) =>
                        r.niveau_conso =
                            IF r.energie_totale_kwh < 60 * r.surface_m2
                            THEN "medium" ELSE "high"

\* the output holds a record of 29.96 kWh/m2 that shows 30 and is 'low' and
\* one of 59.998 kWh/m2 that shows 60 and is 'medium', neither with a
\* negative consumption
C24_Witness ==
    /\ tOut.ok
    /\ \E j, k \in 1..Len(tOut.val) :
          /\ tOut.val[j].intensite_energetique = JSInt(30)
          /\ tOut.val[j].niveau_conso = "low"
          /\ tOut.val[j].gaz_kwh >= 0
          /\ tOut.val[k].intensite_energetique = JSInt(60)
          /\ tOut.val[k].niveau_conso = "medium"
          /\ tOut.val[k].gaz_kwh >= 0

\* C25 -- integer field typing: an integer field of the mapped record is an
\* integer; it is 0 when the raw value is null, undefined, the empty string
\* or no number, and otherwise an integer nearest to the number the raw value
\* is parsed to (at most 1/2 away from it).
C25_IntegerTyping ==
    nOut # <<>> =>
        /\ nOut[1] # Infinity /\ nOut[1] # -Infinity
        /\ (\/ nIn.value \in {JSNull, JSUndefined, JSStr(<<>>)}
            \/ IsNaN(JSToNumber(nIn.value))) => nOut[1] = 0
        /\ (/\ nIn.value \notin {JSNull, JSUndefined, JSStr(<<>>)}
            /\ ~IsNaN(JSToNumber(nIn.value))
            /\ ~IsInfinite(JSToNumber(nIn.value))) =>
                /\ 2 * (nOut[1] * JSToNumber(nIn.value).d - JSToNumber(nIn.value).n)
                      <= JSToNumber(nIn.value).d
                /\ 2 * (JSToNumber(nIn.value).n - nOut[1] * JSToNumber(nIn.value).d)
                      <= JSToNumber(nIn.value).d

\* C26 -- the completion event is dispatched with the guard held: while a run
\* dispatches 'etl:complete', isETLProcessing() is true and getData() is the
\* dataset the run transformed, which the event carries; a call of
\* runETLPipeline made from a listener during the dispatch is answered as a
\* duplicate, executes no stage and returns that dataset.
C26_DispatchUnderGuard ==
    /\ [](\A c \in Calls : pc[c] = DispatchLine =>
            /\ isETLProcessing
            /\ getData = transformedData[c]
            /\ eventData[c] = getData)
    /\ [][\A c \in Calls :
            (pc[c] = DispatchLine /\ pc'[c] = DispatchLine /\ settled' # settled) =>
                /\ settled'.kind = "duplicate"
                /\ settled'.outcome = "returned"
                /\ settled'.ret = transformedData[c]
                /\ settled'.stages = <<>>
                /\ settled'.processing]_vars

\* a run without a callback replaced the published dataset and dispatches its
\* event, and a call made meanwhile was answered as a duplicate with the new
\* dataset
C26_Witness ==
    \E c \in Calls :
        /\ pc[c] = DispatchLine
        /\ ~hasCb[c]
        /\ transformedData[c] # <<>>
        /\ prev[c] # transformedData[c]
        /\ settled.kind = "duplicate"
        /\ settled.ret = transformedData[c]
        /\ settled.prev = transformedData[c]

\* C27 -- the button's guard keeps the pipeline's guard out of reach of the
\* clicks: whenever a run is in progress the button is spinning; the call the
\* click handler makes finds isProcessing false and starts a run, so no call
\* is answered as a duplicate and the status 'success' is shown only for a
\* run that returned; a click while the button is spinning makes no call,
\* creates no overlay and leaves the status as it is.
C27_ButtonGuard ==
    /\ []((Running # {} \/ isETLProcessing) => spinning)
    /\ [](settled.kind # "duplicate")
    /\ [](etlStatus = StatusSuccess =>
            settled.kind = "run" /\ settled.outcome = "returned")
    /\ [][(uiCall' # uiCall /\ uiCall' # 0) =>
            /\ ~isProcessing
            /\ ~spinning
            /\ pc'[uiCall'] # 0
            /\ clicks' = clicks + 1
            /\ overlay'[clicks'] = "shown"]_vars
    /\ [][ignored' # ignored =>
            /\ spinning
            /\ UNCHANGED <<pc, isProcessing, settled, spinning, etlStatus, clicks,
                           overlay, uiCall>>]_vars

\* clicks were made while the second run was in progress and returned at the
\* guard: one overlay is shown, the first run's is on its way out
C27_Witness ==
    /\ ignored >= 1
    /\ clicks = 2
    /\ spinning
    /\ isProcessing
    /\ overlay[2] = "shown"
    /\ settled.kind = "run"

\* the class that bears the name of a level
ClassOfLevel(level) ==
    CASE level = "low" -> "consumption-low"
      [] level = "medium" -> "consumption-medium"
      [] OTHER -> "consumption-high"

\* C28 -- the colouring of the table's intensity column agrees with
\* niveau_conso: for every record of transform's output, which is what a run
\* publishes, getIntensityClass of its intensite_energetique is the class
\* named after its niveau_conso, whatever its surface.
C28_ColourAgreesLevel ==
    tOut.ok =>
        \A j \in 1..Len(tOut.val) :
            IntensityCell(tOut.val[j]) = ClassOfLevel(tOut.val[j].niveau_conso)

====
